---- MODULE Spec2Model ----
(***************************************************************************)
(* iced_table: the divider widget (src/src/divider.rs), the table composer *)
(* (src/src/lib.rs) and the example application that owns the column       *)
(* descriptors and the scroll ids (src/example/src/main.rs).               *)
(*                                                                         *)
(* f32 values are modelled by integers: every width, offset and cursor     *)
(* coordinate the model draws is a whole number, on which f32 arithmetic   *)
(* is exact.  Option<T> is modelled by a sequence: <<>> is None and <<v>>  *)
(* is Some(v).  A Cursor is an Option<Point>: Cursor::Unavailable is None  *)
(* and Cursor::Available(p) is Some(p).                                    *)
(***************************************************************************)
EXTENDS Integers, Sequences, FiniteSets, TLC

VARIABLES
    columns,                 \* App::columns: index -> [width, resize_offset]
    resize_columns_enabled,  \* App::resize_columns_enabled
    footer_enabled,          \* App::footer_enabled
    min_width_enabled,       \* App::min_width_enabled
    tree,                    \* the widget tree built from the latest view, laid out
    dividers,                \* widget-tree State of every Divider: <<region, index>> -> State
    scroll,                  \* absolute offset of the three scrollables: id -> [x, y]
    queue,                   \* messages published to the Shell, not yet given to update
    nEvents,                 \* number of input events delivered so far
    last                     \* what the latest step did (observation only)

vars == <<columns, resize_columns_enabled, footer_enabled, min_width_enabled,
          tree, dividers, scroll, queue, nEvents, last>>

----------------------------------------------------------------------------
(* Bounds of the exploration *)

MaxEvents == 3
NumRows == 2

----------------------------------------------------------------------------
(* Option and small helpers *)

None == <<>>
Some(v) == <<v>>
is_some(o) == Len(o) = 1
unwrap(o) == o[1]
unwrap_or_default(o) == IF is_some(o) THEN o[1] ELSE 0

\* f32::max and f32::min on the modelled values
Max(a, b) == IF a >= b THEN a ELSE b
Min(a, b) == IF a <= b THEN a ELSE b

RECURSIVE Seq_sum(_)
Seq_sum(s) == IF s = <<>> THEN 0 ELSE s[1] + Seq_sum(Tail(s))

RECURSIVE flatten(_)
flatten(ss) == IF ss = <<>> THEN <<>> ELSE ss[1] \o flatten(Tail(ss))

----------------------------------------------------------------------------
(* Program constants *)

\* Column::new: the widths of the example's five columns
InitWidths == <<60, 100, 155, 400, 100>>
NumCols == Len(InitWidths)
Cols == 0 .. NumCols - 1

\* table(): defaults of the builder
min_width_default == 0
min_column_width == 4
divider_width == 2
cell_padding == 4

\* Column::header / Column::footer of the example: container(..).height(24)
content_height == 24

\* divider_hover_bounds / is_content_hovered: the fixed margin
hover_margin == 5

\* responsive(|size| ..): the width the example's table is given
size_width == 1000

----------------------------------------------------------------------------
(* Inputs *)

Regions == {"header", "footer"}
Dividers == Regions \X Cols

\* cursor positions, in the coordinates of the scrollable's content
Point(x, y) == [x |-> x, y |-> y]
HeaderPoints == {Point(155, 10), Point(160, 20), Point(185, 50), Point(310, 10), Point(810, 10)}

\* where the pointer is: over the header scrollable or over the footer
\* scrollable, at a point of its content, or over neither
OverHeader(p) == [over |-> "header", at |-> Some(p)]
OverFooter(p) == [over |-> "footer", at |-> Some(p)]
Nowhere == [over |-> "none", at |-> None]
OnHandle == OverHeader(Point(155, 10))

\* where the left button is pressed, where it is released and where the
\* pointer moves to
PressPointers == {OverHeader(p) : p \in HeaderPoints} \cup {OverFooter(Point(155, 10))}
ReleasePointers == {OnHandle, OverHeader(Point(185, 50)), Nowhere}
MovePointers ==
    {OverHeader(Point(155, 10)), OverHeader(Point(185, 50)), OverHeader(Point(310, 10)),
     OverFooter(Point(185, 50)), Nowhere}

\* mouse::Event::ButtonPressed(Left), ButtonReleased(Left), CursorMoved,
\* ButtonPressed(Right), ButtonReleased(Right), and a non-mouse event
Events == {"PressLeft", "ReleaseLeft", "CursorMoved", "PressRight", "ReleaseRight", "Keyboard"}

\* the events delivered, each with the pointer and with what the child
\* answers when the event is forwarded to it: left presses, left releases
\* and moves with a child that ignores them; the other events at a position
\* on a handle, a key also with the pointer over neither scrollable; and a
\* child that captures what it is handed
Inputs ==
    ({"PressLeft"} \X PressPointers \X {"Ignored"})
    \cup ({"ReleaseLeft"} \X ReleasePointers \X {"Ignored"})
    \cup ({"CursorMoved"} \X MovePointers \X {"Ignored"})
    \cup ({"PressRight", "ReleaseRight", "Keyboard"} \X {OnHandle} \X {"Ignored"})
    \cup ({"Keyboard"} \X {Nowhere} \X {"Ignored"})
    \cup ({"PressLeft", "CursorMoved", "Keyboard"} \X {OnHandle} \X {"Captured"})

\* absolute offsets the body is scrolled to
Offset(x, y) == [x |-> x, y |-> y]
ScrollOffsets == {Offset(37, 120)}

----------------------------------------------------------------------------
(* iced_core geometry used by the divider *)

Rectangle(x, y, width, height) == [x |-> x, y |-> y, width |-> width, height |-> height]

\* Rectangle::contains: half-open on the right and at the bottom
contains(r, p) ==
    /\ r.x <= p.x /\ p.x < r.x + r.width
    /\ r.y <= p.y /\ p.y < r.y + r.height

\* Cursor::position, Cursor::position_over and Cursor::is_over
position(cursor) == cursor
position_over(cursor, r) ==
    IF is_some(cursor) /\ contains(r, unwrap(cursor)) THEN cursor ELSE None
is_over(cursor, r) == is_some(position_over(cursor, r))

----------------------------------------------------------------------------
(* Divider (src/src/divider.rs) *)

\* State::default()
State_default == [drag_origin |-> None, is_divider_hovered |-> FALSE]

divider_bounds(self, bounds) ==
    [bounds EXCEPT !.x = bounds.x + bounds.width - self.width,
                   !.width = self.width]

\* mutant: the hover region is the bare handle strip
divider_hover_bounds_no_margin(self, bounds) == divider_bounds(self, bounds)

divider_hover_bounds(self, bounds) ==
    LET b == divider_bounds(self, bounds)
    IN  [b EXCEPT !.x = b.x - hover_margin, !.width = b.width + 2 * hover_margin]

is_content_hovered(self, bounds, cursor) ==
    LET b == [bounds EXCEPT !.x = Min(bounds.x + hover_margin,
                                      bounds.x + bounds.width - hover_margin)]
    IN  is_over(cursor, b)

\* mutant: the vertical component of the displacement
drag_delta_vertical(pos, origin) == pos.y - origin.y

\* (position - origin).x
drag_delta(pos, origin) == pos.x - origin.x

\* The closure with_divider gives the Divider as on_drag (lib.rs): the
\* Divider holds it as a record of what the closure captured.
call_on_drag(closure, offset) ==
    LET new_width == Max(closure.old_width + offset, closure.min_column_width)
    IN  [type |-> "Resizing", index |-> closure.index,
         offset |-> new_width - closure.old_width]

\* What on_event answers: the new State, the returned Status, the messages
\* published to the Shell, whether the event was handed to the child, and
\* the arguments on_drag was called with; child_call is what the child's
\* on_event was called with, filled in by on_event.
Answer(state, status, published, forwarded, on_drag_args) ==
    [state |-> state, status |-> status, published |-> published,
     forwarded |-> forwarded, on_drag_args |-> on_drag_args, child_call |-> None]

\* the call of the child's on_event that ends on_event: the child's own
\* answer is child_status
forward_to_child(state, child_status) == Answer(state, child_status, <<>>, TRUE, <<>>)

\* mutant: a child that captures the press gets it before the divider
on_button_pressed_child_first(self, state, hover_bounds, cursor, child_status) ==
    IF is_some(position_over(cursor, hover_bounds)) /\ child_status # "Captured"
    THEN Answer([state EXCEPT !.drag_origin = position_over(cursor, hover_bounds)],
                "Captured", <<>>, FALSE, <<>>)
    ELSE forward_to_child(state, child_status)

\* mutant: a press anywhere over the scrollable starts a drag
on_button_pressed_anywhere(self, state, hover_bounds, cursor, child_status) ==
    IF is_some(position(cursor))
    THEN Answer([state EXCEPT !.drag_origin = position(cursor)],
                "Captured", <<>>, FALSE, <<>>)
    ELSE forward_to_child(state, child_status)

\* on_event, arm ButtonPressed(Left)
on_button_pressed(self, state, hover_bounds, cursor, child_status) ==
    IF is_some(position_over(cursor, hover_bounds))
    THEN Answer([state EXCEPT !.drag_origin = position_over(cursor, hover_bounds)],
                "Captured", <<>>, FALSE, <<>>)
    ELSE forward_to_child(state, child_status)

\* mutant: the release ends the drag only while the handle is hovered
on_button_released_hovered(self, state, child_status) ==
    IF is_some(state.drag_origin) /\ state.is_divider_hovered
    THEN Answer([state EXCEPT !.drag_origin = None],
                "Captured", <<self.on_release>>, FALSE, <<>>)
    ELSE forward_to_child(state, child_status)

\* on_event, arm ButtonReleased(Left): drag_origin.take()
on_button_released(self, state, child_status) ==
    IF is_some(state.drag_origin)
    THEN Answer([state EXCEPT !.drag_origin = None],
                "Captured", <<self.on_release>>, FALSE, <<>>)
    ELSE forward_to_child(state, child_status)

\* mutant: a move is a drag only while the handle is hovered
on_cursor_moved_hovered(self, state, cursor, child_status) ==
    IF is_some(position(cursor)) /\ is_some(state.drag_origin) /\ state.is_divider_hovered
    THEN LET delta == drag_delta(unwrap(position(cursor)), unwrap(state.drag_origin))
         IN  Answer(state, "Captured", <<call_on_drag(self.on_drag, delta)>>,
                    FALSE, <<delta>>)
    ELSE forward_to_child(state, child_status)

\* on_event, arm CursorMoved
on_cursor_moved(self, state, cursor, child_status) ==
    IF is_some(position(cursor)) /\ is_some(state.drag_origin)
    THEN LET delta == drag_delta(unwrap(position(cursor)), unwrap(state.drag_origin))
         IN  Answer(state, "Captured", <<call_on_drag(self.on_drag, delta)>>,
                    FALSE, <<delta>>)
    ELSE forward_to_child(state, child_status)

\* mutant: the hover flag is refreshed only when the event is forwarded
on_event_hover_after_consume(self, state, event, bounds, cursor, child_status) ==
    LET hb == divider_hover_bounds(self, bounds)
        s1 == [state EXCEPT !.is_divider_hovered = is_over(cursor, hb)]
        r == CASE event = "PressLeft" -> on_button_pressed(self, state, hb, cursor, child_status)
               [] event = "ReleaseLeft" -> on_button_released(self, state, child_status)
               [] event = "CursorMoved" -> on_cursor_moved(self, state, cursor, child_status)
               [] OTHER -> forward_to_child(state, child_status)
    IN  IF r.forwarded
        THEN [r EXCEPT !.state = s1,
                       !.child_call = Some([event |-> event, cursor |-> cursor])]
        ELSE r

\* mutant: the release of any button ends the drag
on_event_any_release(self, state, event, bounds, cursor, child_status) ==
    LET hb == divider_hover_bounds(self, bounds)
        s1 == [state EXCEPT !.is_divider_hovered = is_over(cursor, hb)]
        r == CASE event = "PressLeft" -> on_button_pressed(self, s1, hb, cursor, child_status)
               [] event \in {"ReleaseLeft", "ReleaseRight"} ->
                    on_button_released(self, s1, child_status)
               [] event = "CursorMoved" -> on_cursor_moved(self, s1, cursor, child_status)
               [] OTHER -> forward_to_child(s1, child_status)
    IN  IF r.forwarded
        THEN [r EXCEPT !.child_call = Some([event |-> event, cursor |-> cursor])]
        ELSE r

\* Widget::on_event of the Divider
on_event(self, state, event, bounds, cursor, child_status) ==
    LET hb == divider_hover_bounds(self, bounds)
        s1 == [state EXCEPT !.is_divider_hovered = is_over(cursor, hb)]
        r == CASE event = "PressLeft" -> on_button_pressed(self, s1, hb, cursor, child_status)
               [] event = "ReleaseLeft" -> on_button_released(self, s1, child_status)
               [] event = "CursorMoved" -> on_cursor_moved(self, s1, cursor, child_status)
               [] OTHER -> forward_to_child(s1, child_status)
    IN  \* self.content.as_widget_mut().on_event(.., event, .., cursor, ..)
        IF r.forwarded
        THEN [r EXCEPT !.child_call = Some([event |-> event, cursor |-> cursor])]
        ELSE r

\* the calls draw makes on the child and on the renderer, in order: the
\* child's draw, then fill_quad if the handle is painted, with the flag
\* the appearance was asked for
draw_commands(painted, hovered, quad, cursor) ==
    <<[op |-> "content.draw", cursor |-> cursor]>>
    \o (IF painted
        THEN <<[op |-> "fill_quad", bounds |-> quad, appearance |-> [hovered |-> hovered]]>>
        ELSE <<>>)

\* mutant: a painted handle always asks for the hovered appearance
draw_painted_means_hovered(self, state, bounds, cursor) ==
    LET painted == \/ is_content_hovered(self, bounds, cursor)
                   \/ state.is_divider_hovered
                   \/ is_some(state.drag_origin)
    IN  [content_hovered |-> is_content_hovered(self, bounds, cursor),
         painted |-> painted,
         hovered |-> painted,
         quad |-> divider_bounds(self, bounds),
         commands |-> draw_commands(painted, painted, divider_bounds(self, bounds), cursor)]

\* Widget::draw: whether the handle is painted, whether it is painted in
\* its hovered appearance, and the calls made
draw(self, state, bounds, cursor) ==
    LET painted == \/ is_content_hovered(self, bounds, cursor)
                   \/ state.is_divider_hovered
                   \/ is_some(state.drag_origin)
        hovered == state.is_divider_hovered \/ is_some(state.drag_origin)
    IN  [content_hovered |-> is_content_hovered(self, bounds, cursor),
         painted |-> painted,
         hovered |-> hovered,
         quad |-> divider_bounds(self, bounds),
         commands |-> draw_commands(painted, hovered, divider_bounds(self, bounds), cursor)]

\* mutant: the resize cursor is shown only while the handle is hovered
mouse_interaction_hover_only(state, child_interaction) ==
    IF state.is_divider_hovered
    THEN "ResizingHorizontally" ELSE child_interaction

\* Widget::mouse_interaction; child_interaction is what the child's
\* mouse_interaction returns for the same layout and cursor
mouse_interaction(state, child_interaction) ==
    IF is_some(state.drag_origin) \/ state.is_divider_hovered
    THEN "ResizingHorizontally" ELSE child_interaction


----------------------------------------------------------------------------
(* Table composer (src/src/lib.rs) *)

\* mutant: old_width is the effective width, not the committed one
with_divider_effective_old_width(index, column, on_drag, on_release, mcw, dw) ==
    LET width == Max(column.width + unwrap_or_default(column.resize_offset), mcw)
    IN  IF is_some(on_drag) /\ is_some(on_release)
        THEN [widget |-> "Divider", width |-> width,
              divider |-> [width |-> dw,
                           on_drag |-> [index |-> index, old_width |-> width,
                                        min_column_width |-> mcw],
                           on_release |-> unwrap(on_release)]]
        ELSE [widget |-> "Row", width |-> width, spacing |-> dw]

\* mutant: the cell width is not clamped to min_column_width
with_divider_unclamped(index, column, on_drag, on_release, mcw, dw) ==
    LET width == column.width + unwrap_or_default(column.resize_offset)
    IN  IF is_some(on_drag) /\ is_some(on_release)
        THEN [widget |-> "Divider", width |-> width,
              divider |-> [width |-> dw,
                           on_drag |-> [index |-> index, old_width |-> column.width,
                                        min_column_width |-> mcw],
                           on_release |-> unwrap(on_release)]]
        ELSE [widget |-> "Row", width |-> width, spacing |-> dw]

\* with_divider: the cell of a header or footer column.  on_drag is
\* Some(..) exactly when on_column_resize was called on the Table.
with_divider(index, column, on_drag, on_release, mcw, dw) ==
    LET width == Max(column.width + unwrap_or_default(column.resize_offset), mcw)
    IN  IF is_some(on_drag) /\ is_some(on_release)
        THEN [widget |-> "Divider", width |-> width,
              divider |-> [width |-> dw,
                           on_drag |-> [index |-> index, old_width |-> column.width,
                                        min_column_width |-> mcw],
                           on_release |-> unwrap(on_release)]]
        ELSE [widget |-> "Row", width |-> width, spacing |-> dw]

header_container(index, column, on_drag, on_release, mcw, dw) ==
    with_divider(index, column, on_drag, on_release, mcw, dw)

\* mutant: the footer divider measures the drag from the effective width
footer_container_effective_old_width(index, column, on_drag, on_release, mcw, dw) ==
    with_divider_effective_old_width(index, column, on_drag, on_release, mcw, dw)

footer_container(index, column, on_drag, on_release, mcw, dw) ==
    with_divider(index, column, on_drag, on_release, mcw, dw)

\* mutant: the body cell ignores the resize in flight
body_container_committed(col_index, row_index, column, mcw, dw) ==
    [widget |-> "Row", width |-> Max(column.width, mcw), spacing |-> dw]

body_container(col_index, row_index, column, mcw, dw) ==
    LET width == column.width + unwrap_or_default(column.resize_offset)
    IN  [widget |-> "Row", width |-> Max(width, mcw), spacing |-> dw]

\* mutant: the filler is sized from the committed widths
dummy_container_committed(cols, min_width, mcw) ==
    LET total_width == Seq_sum([k \in 1 .. NumCols |-> Max(cols[k - 1].width, mcw)])
        remaining == min_width - total_width
    IN  IF remaining > 0 THEN Some([widget |-> "Space", width |-> remaining]) ELSE None

\* dummy_container: Some(filler) or None
dummy_container(cols, min_width, mcw) ==
    LET total_width ==
            Seq_sum([k \in 1 .. NumCols |->
                Max(cols[k - 1].width + unwrap_or_default(cols[k - 1].resize_offset), mcw)])
        remaining == min_width - total_width
    IN  IF remaining > 0 THEN Some([widget |-> "Space", width |-> remaining]) ELSE None

\* table() followed by the builder calls of the example's view()
Table(resize, footer, min_width) ==
    [footer |-> footer,
     on_column_drag |-> IF resize THEN Some("Resizing") ELSE None,
     on_column_release |-> IF resize THEN Some([type |-> "Resized"]) ELSE None,
     min_width |-> min_width,
     min_column_width |-> min_column_width,
     divider_width |-> divider_width]

\* From<Table> for Element: the three rows of cells, columns first and the
\* filler (when there is one) last
\* mutant: the header cells are numbered from 1
header_row_one_based(t, cols) ==
    [k \in 1 .. NumCols |->
        header_container(k, cols[k - 1], t.on_column_drag, t.on_column_release,
                         t.min_column_width, t.divider_width)]
    \o dummy_container(cols, t.min_width, t.min_column_width)

header_row(t, cols) ==
    [k \in 1 .. NumCols |->
        header_container(k - 1, cols[k - 1], t.on_column_drag, t.on_column_release,
                         t.min_column_width, t.divider_width)]
    \o dummy_container(cols, t.min_width, t.min_column_width)

body_row(t, cols, row_index) ==
    [k \in 1 .. NumCols |->
        body_container(k - 1, row_index, cols[k - 1], t.min_column_width, t.divider_width)]
    \o dummy_container(cols, t.min_width, t.min_column_width)

footer_row(t, cols) ==
    [k \in 1 .. NumCols |->
        footer_container(k - 1, cols[k - 1], t.on_column_drag, t.on_column_release,
                         t.min_column_width, t.divider_width)]
    \o dummy_container(cols, t.min_width, t.min_column_width)

\* layout.bounds() of the cells of a row: fixed-width cells laid side by
\* side from x = 0, each as high as the padded content
layout_row(row) ==
    [k \in 1 .. Len(row) |->
        [cell |-> row[k],
         bounds |-> Rectangle(Seq_sum([j \in 1 .. k - 1 |-> row[j].width]), 0,
                              row[k].width, content_height + 2 * cell_padding)]]

\* From<Table> for Element: header, body and (optional) footer
build(t, cols) ==
    [header |-> layout_row(header_row(t, cols)),
     body |-> [r \in 0 .. NumRows - 1 |-> body_row(t, cols, r)],
     footer |-> IF t.footer THEN Some(layout_row(footer_row(t, cols))) ELSE None]

----------------------------------------------------------------------------
(* The example application (src/example/src/main.rs) and the runtime loop *)

\* mutant: on_column_resize is called whatever the checkbox says
view_always_resizable(resize, footer, min_width_on) ==
    Table(TRUE, footer, IF min_width_on THEN size_width ELSE min_width_default)

\* App::view: the Table the example builds from its state
view(resize, footer, min_width_on) ==
    Table(resize, footer, IF min_width_on THEN size_width ELSE min_width_default)

\* whether a region is part of the tree, and the laid-out row it shows
in_tree(tr, region) == region \in {"header", "body"} \/ is_some(tr.footer)
region_row(tr, region) == IF region = "header" THEN tr.header ELSE unwrap(tr.footer)

\* whether the Divider of column index of a region is in the tree
has_divider(tr, region, index) ==
    in_tree(tr, region) /\ region_row(tr, region)[index + 1].cell.widget = "Divider"

\* header and footer are each inside their own scrollable, which hands its
\* content the cursor only while the pointer is over that scrollable
cursor_in(pointer, region) == IF pointer.over = region THEN pointer.at ELSE None

\* mutant: the offset is passed on as it is
body_on_scroll_unchanged(offset) == [type |-> "SyncHeader", offset |-> offset]

\* the on_scroll closure of the body scrollable
body_on_scroll(offset) == [type |-> "SyncHeader", offset |-> [offset EXCEPT !.y = 0]]

\* Tree::diff against a new tree: the State of a Divider that is not in the
\* new tree is dropped, and a Divider that enters the tree starts from
\* State::default(); likewise the offset of the footer scrollable
diff_dividers(ds, tr) ==
    [d \in Dividers |-> IF has_divider(tr, d[1], d[2]) THEN ds[d] ELSE State_default]

Offset_default == Offset(0, 0)

diff_scroll(sc, tr) ==
    [sc EXCEPT !.footer = IF in_tree(tr, "footer") THEN @ ELSE Offset_default]

\* scrollable::scroll_to(id, offset): moves the scrollable with that id, if
\* it is in the tree
scroll_to(sc, tr, id, offset) ==
    IF in_tree(tr, id) THEN [sc EXCEPT ![id] = offset] ELSE sc

\* mutant: the commit adds the pending offsets and leaves them in place
update_columns_keep_offset(cols, message) ==
    CASE message.type = "Resizing" ->
           IF message.index \in DOMAIN cols
           THEN [cols EXCEPT ![message.index].resize_offset = Some(message.offset)]
           ELSE cols
      [] message.type = "Resized" ->
           [i \in DOMAIN cols |->
               IF is_some(cols[i].resize_offset)
               THEN [cols[i] EXCEPT !.width = @ + unwrap(cols[i].resize_offset)]
               ELSE cols[i]]
      [] OTHER -> cols

\* mutant: a Resizing adds its offset to the one already pending
update_columns_accumulate(cols, message) ==
    CASE message.type = "Resizing" ->
           IF message.index \in DOMAIN cols
           THEN [cols EXCEPT ![message.index].resize_offset =
                                Some(unwrap_or_default(@) + message.offset)]
           ELSE cols
      [] message.type = "Resized" ->
           [i \in DOMAIN cols |->
               IF is_some(cols[i].resize_offset)
               THEN [width |-> cols[i].width + unwrap(cols[i].resize_offset),
                     resize_offset |-> None]
               ELSE cols[i]]
      [] OTHER -> cols

\* App::update: Message::Resizing and Message::Resized
update_columns(cols, message) ==
    CASE message.type = "Resizing" ->
           IF message.index \in DOMAIN cols
           THEN [cols EXCEPT ![message.index].resize_offset = Some(message.offset)]
           ELSE cols
      [] message.type = "Resized" ->
           [i \in DOMAIN cols |->
               IF is_some(cols[i].resize_offset)
               THEN [width |-> cols[i].width + unwrap(cols[i].resize_offset),
                     resize_offset |-> None]
               ELSE cols[i]]
      [] OTHER -> cols

\* App::update: Message::SyncHeader and the two commands it returns
update_scroll(sc, tr, message) ==
    IF message.type = "SyncHeader"
    THEN scroll_to(scroll_to(sc, tr, "header", message.offset), tr, "footer", message.offset)
    ELSE sc

\* App::update: the three checkbox messages
update_flag(flag, name, message) == IF message.type = name THEN message.enabled ELSE flag

Init ==
    /\ columns = [i \in Cols |-> [width |-> InitWidths[i + 1], resize_offset |-> None]]
    /\ resize_columns_enabled = TRUE
    /\ footer_enabled = TRUE
    /\ min_width_enabled = TRUE
    /\ tree = build(view(TRUE, TRUE, TRUE),
                    [i \in Cols |-> [width |-> InitWidths[i + 1], resize_offset |-> None]])
    /\ dividers = [d \in Dividers |-> State_default]
    /\ scroll = [header |-> Offset_default, body |-> Offset_default, footer |-> Offset_default]
    /\ queue = <<>>
    /\ nEvents = 0
    /\ last = [op |-> "init"]

CanDeliver == nEvents < MaxEvents

\* the order in which the tree hands an event to its dividers
DividerOrder ==
    [k \in 1 .. 2 * NumCols |->
        IF k <= NumCols THEN <<"header", k - 1>> ELSE <<"footer", k - 1 - NumCols>>]

\* what one Divider of the tree does with an event
deliver(tr, ds, d, event, pointer, child_status) ==
    IF has_divider(tr, d[1], d[2])
    THEN LET c == region_row(tr, d[1])[d[2] + 1]
         IN  [delivered |-> TRUE, cursor |-> cursor_in(pointer, d[1]), before |-> ds[d],
              result |-> on_event(c.cell.divider, ds[d], event, c.bounds,
                                  cursor_in(pointer, d[1]), child_status)]
    ELSE [delivered |-> FALSE]

\* the event handed to the first k dividers of the tree, in order
RECURSIVE deliver_in_order(_, _, _, _, _, _)
deliver_in_order(tr, ds, event, pointer, child_status, k) ==
    IF k = 0
    THEN <<>>
    ELSE Append(deliver_in_order(tr, ds, event, pointer, child_status, k - 1),
                deliver(tr, ds, DividerOrder[k], event, pointer, child_status))

\* the place of a divider in that order
order_of(d) == IF d[1] = "header" THEN d[2] + 1 ELSE NumCols + d[2] + 1

\* one event of the runtime, delivered to every Divider of the tree
PointerEvent(event, pointer, child_status) ==
    /\ CanDeliver
    /\ pointer.over = "footer" => in_tree(tree, "footer")
    /\ \E calls \in {deliver_in_order(tree, dividers, event, pointer, child_status,
                                        2 * NumCols)} :
          /\ last' = [op |-> "on_event", event |-> event, pointer |-> pointer,
                      child_status |-> child_status,
                      calls |-> [d \in Dividers |-> calls[order_of(d)]]]
          /\ dividers' = [d \in Dividers |->
                            IF calls[order_of(d)].delivered
                            THEN calls[order_of(d)].result.state ELSE dividers[d]]
          /\ queue' = queue \o flatten([k \in 1 .. 2 * NumCols |->
                            IF calls[k].delivered THEN calls[k].result.published ELSE <<>>])
    /\ nEvents' = nEvents + 1
    /\ UNCHANGED <<columns, resize_columns_enabled, footer_enabled, min_width_enabled,
                   tree, scroll>>

\* the body scrollable is scrolled to an absolute offset
BodyScroll(offset) ==
    /\ CanDeliver
    /\ scroll' = [scroll EXCEPT !.body = offset]
    /\ queue' = Append(queue, body_on_scroll(offset))
    /\ last' = [op |-> "on_scroll", offset |-> offset,
                published |-> <<body_on_scroll(offset)>>]
    /\ nEvents' = nEvents + 1
    /\ UNCHANGED <<columns, resize_columns_enabled, footer_enabled, min_width_enabled,
                   tree, dividers>>

\* one of the example's checkboxes is clicked
checkbox(name, is_checked) == [type |-> name, enabled |-> ~is_checked]

Checkbox(name) ==
    /\ CanDeliver
    /\ LET is_checked == CASE name = "ResizeColumnsEnabled" -> resize_columns_enabled
                           [] name = "FooterEnabled" -> footer_enabled
                           [] name = "MinWidthEnabled" -> min_width_enabled
       IN  /\ queue' = Append(queue, checkbox(name, is_checked))
           /\ last' = [op |-> "checkbox", published |-> <<checkbox(name, is_checked)>>]
    /\ nEvents' = nEvents + 1
    /\ UNCHANGED <<columns, resize_columns_enabled, footer_enabled, min_width_enabled,
                   tree, dividers, scroll>>

\* App::update on the oldest pending message, the commands it returns, then
\* the new view and the diff of the tree against it
Update ==
    /\ queue # <<>>
    /\ columns' = update_columns(columns, Head(queue))
    /\ resize_columns_enabled' =
          update_flag(resize_columns_enabled, "ResizeColumnsEnabled", Head(queue))
    /\ footer_enabled' = update_flag(footer_enabled, "FooterEnabled", Head(queue))
    /\ min_width_enabled' = update_flag(min_width_enabled, "MinWidthEnabled", Head(queue))
    /\ tree' = build(view(resize_columns_enabled', footer_enabled', min_width_enabled'),
                     columns')
    /\ scroll' = diff_scroll(update_scroll(scroll, tree, Head(queue)), tree')
    /\ dividers' = diff_dividers(dividers, tree')
    /\ last' = [op |-> "update", message |-> Head(queue)]
    /\ queue' = Tail(queue)
    /\ UNCHANGED nEvents

Next ==
    \/ \E input \in Inputs : PointerEvent(input[1], input[2], input[3])
    \/ \E offset \in ScrollOffsets : BodyScroll(offset)
    \/ \E name \in {"ResizeColumnsEnabled", "FooterEnabled", "MinWidthEnabled"} : Checkbox(name)
    \/ Update

Spec == Init /\ [][Next]_vars

\* The application after the divider of column 2 was dragged to the left
\* as far as it goes and released (Resizing(2, -151), then Resized): the
\* column is min_column_width wide.
NarrowWidths == [InitWidths EXCEPT ![3] = min_column_width]

InitNarrow ==
    /\ columns = [i \in Cols |-> [width |-> NarrowWidths[i + 1], resize_offset |-> None]]
    /\ resize_columns_enabled = TRUE
    /\ footer_enabled = TRUE
    /\ min_width_enabled = TRUE
    /\ tree = build(view(TRUE, TRUE, TRUE),
                    [i \in Cols |-> [width |-> NarrowWidths[i + 1], resize_offset |-> None]])
    /\ dividers = [d \in Dividers |-> State_default]
    /\ scroll = [header |-> Offset_default, body |-> Offset_default, footer |-> Offset_default]
    /\ queue = <<>>
    /\ nEvents = 0
    /\ last = [op |-> "init"]

SpecNarrow == InitNarrow /\ [][Next]_vars

----------------------------------------------------------------------------
(* Properties *)

\* the latest step delivered the given event to the tree
EventStep(event) == last.op = "on_event" /\ last.event = event

\* the dividers on_event was called on in the latest step, and the call
Called == {d \in Dividers : last.calls[d].delivered}
Call(d) == last.calls[d]

\* layout.bounds() of a divider of the tree
BoundsOf(d) == region_row(tree, d[1])[d[2] + 1].bounds

\* p lies in the handle strip of width divider_width at the trailing edge of
\* the divider's bounds, widened by 5 on both sides
InHoverRegion(d, p) ==
    /\ BoundsOf(d).x + BoundsOf(d).width - divider_width - 5 <= p.x
    /\ p.x < BoundsOf(d).x + BoundsOf(d).width + 5
    /\ BoundsOf(d).y <= p.y
    /\ p.y < BoundsOf(d).y + BoundsOf(d).height

CursorInHover(d) == is_some(Call(d).cursor) /\ InHoverRegion(d, unwrap(Call(d).cursor))

\* C1: a left-button press with the cursor inside the hover region sets
\* drag_origin to the cursor position, is Captured, publishes nothing and is
\* not handed to the child, whatever the divider's state was.
C1_PressInsideHover ==
    EventStep("PressLeft") =>
        \A d \in Called :
            CursorInHover(d) =>
                /\ dividers[d].drag_origin = Some(unwrap(Call(d).cursor))
                /\ Call(d).result.status = "Captured"
                /\ Call(d).result.published = <<>>
                /\ ~Call(d).result.forwarded

\* C1 witness: a press inside the hover region of a divider whose
\* drag_origin was already set, at another point, replaced the origin.
C1_Witness ==
    /\ EventStep("PressLeft")
    /\ \E d \in Called :
          /\ CursorInHover(d)
          /\ is_some(Call(d).before.drag_origin)
          /\ Call(d).before.drag_origin # Call(d).cursor
          /\ dividers[d].drag_origin = Call(d).cursor

\* C2: a left-button release while drag_origin is set clears it, publishes
\* exactly the release notification and is consumed, wherever the cursor is;
\* a release while drag_origin is not set publishes nothing.
C2_Release ==
    EventStep("ReleaseLeft") =>
        \A d \in Called :
            /\ is_some(Call(d).before.drag_origin) =>
                  /\ dividers[d].drag_origin = None
                  /\ Call(d).result.published = <<[type |-> "Resized"]>>
                  /\ Call(d).result.status = "Captured"
                  /\ ~Call(d).result.forwarded
            /\ ~is_some(Call(d).before.drag_origin) =>
                  Call(d).result.published = <<>>

\* C2 witness: a release ended a drag while the cursor was not in the hover
\* region of that divider.
C2_Witness ==
    /\ EventStep("ReleaseLeft")
    /\ \E d \in Called :
          /\ is_some(Call(d).before.drag_origin)
          /\ ~CursorInHover(d)
          /\ dividers[d].drag_origin = None
          /\ Call(d).result.published = <<[type |-> "Resized"]>>


\* a divider that was in a drag when the latest event reached it
Dragging(d) == is_some(Call(d).before.drag_origin)

\* C3 as stated: every pointer move delivered while drag_origin is set
\* publishes exactly one drag notification and is consumed, wherever the
\* cursor is, also outside the enclosing scroll region.
C3_Original ==
    EventStep("CursorMoved") =>
        \A d \in Called :
            Dragging(d) =>
                /\ Len(Call(d).result.published) = 1
                /\ Call(d).result.published[1].type = "Resizing"
                /\ Call(d).result.status = "Captured"
                /\ ~Call(d).result.forwarded

\* C3 as amended: a pointer move delivered while drag_origin is set and the
\* cursor position is available publishes exactly one drag notification and
\* is consumed, wherever that position is; with no cursor position (the
\* pointer is outside the enclosing scrollable) it publishes nothing and is
\* handed to the child.
C3_MoveWhileDragging ==
    EventStep("CursorMoved") =>
        \A d \in Called :
            Dragging(d) =>
                IF is_some(Call(d).cursor)
                THEN /\ Len(Call(d).result.published) = 1
                     /\ Call(d).result.published[1].type = "Resizing"
                     /\ Call(d).result.status = "Captured"
                     /\ ~Call(d).result.forwarded
                ELSE /\ Call(d).result.published = <<>>
                     /\ Call(d).result.forwarded
                     /\ Call(d).result.status = last.child_status

\* C3 witness: a move during a drag, at a position outside the divider's
\* layout bounds, published one drag notification.
C3_Witness ==
    /\ EventStep("CursorMoved")
    /\ \E d \in Called :
          /\ Dragging(d)
          /\ is_some(Call(d).cursor)
          /\ ~contains(BoundsOf(d), unwrap(Call(d).cursor))
          /\ Len(Call(d).result.published) = 1
          /\ ~Call(d).result.forwarded

\* C4: the value on_drag is called with for a move during a drag is the
\* current pointer x minus the origin x, and nothing else.
C4_DragDelta ==
    EventStep("CursorMoved") =>
        \A d \in Called :
            (Dragging(d) /\ is_some(Call(d).cursor)) =>
                Call(d).result.on_drag_args =
                    <<unwrap(Call(d).cursor).x - unwrap(Call(d).before.drag_origin).x>>

\* C4 witness: a later move of a drag (an earlier one is already stored as
\* the column's resize_offset), at another height than the origin, called
\* on_drag with the horizontal displacement from the origin.
C4_Witness ==
    /\ EventStep("CursorMoved")
    /\ \E d \in Called :
          /\ Dragging(d)
          /\ is_some(Call(d).cursor)
          /\ is_some(columns[d[2]].resize_offset)
          /\ unwrap(Call(d).cursor).y # unwrap(Call(d).before.drag_origin).y
          /\ unwrap(columns[d[2]].resize_offset)
                # unwrap(Call(d).cursor).x - unwrap(Call(d).before.drag_origin).x
          /\ Call(d).result.on_drag_args =
                <<unwrap(Call(d).cursor).x - unwrap(Call(d).before.drag_origin).x>>

\* C5: a raw delta d on the divider of column i of committed width w is
\* reported as (i, max(w + d, min_column_width) - w), whatever the column's
\* resize_offset is, so w plus the reported delta is never below
\* min_column_width.
C5_ReportedDelta ==
    EventStep("CursorMoved") =>
        \A d \in Called :
            Call(d).result.on_drag_args # <<>> =>
                LET w == columns[d[2]].width
                    raw == Call(d).result.on_drag_args[1]
                    new_width == IF w + raw >= min_column_width
                                 THEN w + raw ELSE min_column_width
                IN  /\ Call(d).result.published =
                          <<[type |-> "Resizing", index |-> d[2], offset |-> new_width - w]>>
                    /\ w + Call(d).result.published[1].offset >= min_column_width

\* C5 witness: column 4 of committed width 100, with a resize_offset already
\* stored, is dragged by -500 and the delta reported is 4 - 100.
C5_Witness ==
    /\ EventStep("CursorMoved")
    /\ \E d \in Called :
          /\ d[2] = 4
          /\ columns[4].width = 100
          /\ is_some(columns[4].resize_offset)
          /\ Call(d).result.on_drag_args = <<-500>>
          /\ Call(d).result.published = <<[type |-> "Resizing", index |-> 4, offset |-> -96]>>


\* the width the specification gives a column: max(width +
\* resize_offset.unwrap_or(0), min), written out
ClampedWidth(column, min) ==
    IF column.width + (IF column.resize_offset = <<>> THEN 0 ELSE column.resize_offset[1]) >= min
    THEN column.width + (IF column.resize_offset = <<>> THEN 0 ELSE column.resize_offset[1])
    ELSE min

\* inputs the width computations are tried on beyond those the runs reach
TryOffsets == {None, Some(-500), Some(-96), Some(0), Some(30), Some(655)}
TryMinColumnWidths == {4, 120, 700}

\* C6: header cell, every body cell and footer cell of a column have the
\* same width max(width + resize_offset.unwrap_or(0), min_column_width), in
\* the tree of every state and for every offset and minimum tried, with
\* resizing enabled or not.
C6_AlignedWidths ==
    /\ \A i \in Cols :
          /\ tree.header[i + 1].cell.width = ClampedWidth(columns[i], min_column_width)
          /\ \A r \in 0 .. NumRows - 1 :
                tree.body[r][i + 1].width = ClampedWidth(columns[i], min_column_width)
          /\ is_some(tree.footer) =>
                unwrap(tree.footer)[i + 1].cell.width =
                    ClampedWidth(columns[i], min_column_width)
    /\ \A i \in {j \in Cols : is_some(columns[j].resize_offset)} :
          \A off \in TryOffsets, min \in TryMinColumnWidths, resize \in BOOLEAN :
             LET column == [width |-> columns[i].width, resize_offset |-> off]
                 t == Table(resize, TRUE, 0)
             IN  /\ header_container(i, column, t.on_column_drag, t.on_column_release,
                                     min, divider_width).width = ClampedWidth(column, min)
                 /\ body_container(i, 0, column, min, divider_width).width
                       = ClampedWidth(column, min)
                 /\ footer_container(i, column, t.on_column_drag, t.on_column_release,
                                     min, divider_width).width = ClampedWidth(column, min)

\* C6 witness: in the middle of a drag, with the footer shown, the three
\* cells of the dragged column have the width changed by the offset.
C6_Witness ==
    \E i \in Cols :
        /\ is_some(columns[i].resize_offset)
        /\ unwrap(columns[i].resize_offset) # 0
        /\ is_some(tree.footer)
        /\ tree.header[i + 1].cell.width = columns[i].width + unwrap(columns[i].resize_offset)
        /\ tree.body[0][i + 1].width = columns[i].width + unwrap(columns[i].resize_offset)
        /\ unwrap(tree.footer)[i + 1].cell.width
              = columns[i].width + unwrap(columns[i].resize_offset)

\* the width with_divider gives a column of committed width w under offset
\* delta and minimum min
WidthUnder(i, w, delta, min) ==
    with_divider(i, [width |-> w, resize_offset |-> Some(delta)], None, None,
                 min, divider_width).width

TryDeltas == {-500, -96, 0, 30, 655}

\* C7: for the committed width of every column being resized and all deltas
\* and minimums tried, the effective width is max(old_width + delta, min)
\* and does not decrease when delta grows.
C7_ClampMonotone ==
    \A i \in {j \in Cols : is_some(columns[j].resize_offset)} :
        \A min \in TryMinColumnWidths, d1 \in TryDeltas, d2 \in TryDeltas :
            /\ WidthUnder(i, columns[i].width, d1, min)
                  = (IF columns[i].width + d1 >= min THEN columns[i].width + d1 ELSE min)
            /\ d1 <= d2 =>
                  WidthUnder(i, columns[i].width, d1, min)
                      <= WidthUnder(i, columns[i].width, d2, min)

\* C7 witness: a column is being resized, and among the deltas tried on its
\* committed width one is clamped to the minimum and a larger one is not.
C7_Witness ==
    \E i \in Cols :
        /\ is_some(columns[i].resize_offset)
        /\ \E d1 \in TryDeltas, d2 \in TryDeltas :
              /\ d1 < d2
              /\ columns[i].width + d1 < min_column_width
              /\ WidthUnder(i, columns[i].width, d1, min_column_width) = min_column_width
              /\ WidthUnder(i, columns[i].width, d2, min_column_width) = columns[i].width + d2
              /\ tree.header[i + 1].cell.width
                    = WidthUnder(i, columns[i].width, unwrap(columns[i].resize_offset),
                                 min_column_width)

\* W: the sum of the columns' effective widths; M: the min_width of the view
SumWidths == Seq_sum([k \in 1 .. NumCols |-> ClampedWidth(columns[k - 1], min_column_width)])
ViewMinWidth == IF min_width_enabled THEN size_width ELSE 0

\* a row of cells has a filler exactly when M - W > 0, of that width, and
\* is max(W, M) wide in all
FillerRight(cells) ==
    /\ Len(cells) = (IF ViewMinWidth - SumWidths > 0 THEN NumCols + 1 ELSE NumCols)
    /\ ViewMinWidth - SumWidths > 0 =>
          /\ cells[NumCols + 1].widget = "Space"
          /\ cells[NumCols + 1].width = ViewMinWidth - SumWidths
    /\ Seq_sum([k \in 1 .. Len(cells) |-> cells[k].width])
          = (IF SumWidths >= ViewMinWidth THEN SumWidths ELSE ViewMinWidth)

HeaderCells == [k \in 1 .. Len(tree.header) |-> tree.header[k].cell]
FooterCells == [k \in 1 .. Len(unwrap(tree.footer)) |-> unwrap(tree.footer)[k].cell]

InitialColumns ==
    \A i \in Cols : columns[i] = [width |-> InitWidths[i + 1], resize_offset |-> None]

\* C8: header row, every body row and footer row end with a filler exactly
\* when M - W > 0, of width M - W, and are max(W, M) wide; the widths
\* 60, 100, 155, 400, 100 give no filler and 815 for M = 0 and a filler of
\* 185 for M = 1000.
C8_Filler ==
    /\ FillerRight(HeaderCells)
    /\ \A r \in 0 .. NumRows - 1 : FillerRight(tree.body[r])
    /\ is_some(tree.footer) => FillerRight(FooterCells)
    /\ (InitialColumns /\ ViewMinWidth = 0) =>
          /\ Len(tree.header) = 5
          /\ Seq_sum([k \in 1 .. Len(tree.header) |-> tree.header[k].cell.width]) = 815
    /\ (InitialColumns /\ ViewMinWidth = 1000) =>
          /\ Len(tree.header) = 6
          /\ tree.header[6].cell.width = 185

\* C8 witness: with min_width off the rows of the initial columns have no
\* filler and are 815 wide.
C8_Witness ==
    /\ InitialColumns
    /\ ~min_width_enabled
    /\ is_some(tree.footer)
    /\ Len(tree.header) = 5 /\ Len(tree.body[0]) = 5 /\ Len(unwrap(tree.footer)) = 5
    /\ Seq_sum([k \in 1 .. 5 |-> tree.body[0][k].width]) = 815

\* C9: a scroll of the body to (x, y) publishes exactly one sync
\* notification, with the offset (x, 0).
C9_SyncPayload ==
    last.op = "on_scroll" =>
        /\ last.published = <<[type |-> "SyncHeader",
                               offset |-> [x |-> last.offset.x, y |-> 0]]>>
        /\ scroll.body = last.offset
        /\ queue # <<>>
        /\ queue[Len(queue)] = last.published[1]

\* C9 witness: the body was scrolled to (37, 120) and the notification
\* carries (37, 0).
C9_Witness ==
    /\ last.op = "on_scroll"
    /\ last.offset = [x |-> 37, y |-> 120]
    /\ queue[Len(queue)] = [type |-> "SyncHeader", offset |-> [x |-> 37, y |-> 0]]

NoSyncPending == \A k \in 1 .. Len(queue) : queue[k].type # "SyncHeader"

\* C10 as stated: once no sync notification is pending, the header and the
\* footer are at the body's horizontal offset and at vertical offset 0.
C10_Original ==
    NoSyncPending =>
        /\ scroll.header = [x |-> scroll.body.x, y |-> 0]
        /\ is_some(tree.footer) => scroll.footer = [x |-> scroll.body.x, y |-> 0]

\* C11: after on_event has handled any event, consumed or forwarded, mouse
\* or not, is_divider_hovered tells whether the cursor of that event is
\* inside the hover region of the divider (an unavailable cursor is not).
C11_HoverTracksEvent ==
    last.op = "on_event" =>
        \A d \in Called :
            /\ Call(d).result.state.is_divider_hovered = CursorInHover(d)
            /\ dividers[d].is_divider_hovered = CursorInHover(d)

\* C11 witness: an event the divider consumed changed the hover flag: the
\* release that ended a drag came with the cursor outside the hover region
\* of a divider that was hovered.
C11_Witness ==
    /\ EventStep("ReleaseLeft")
    /\ \E d \in Called :
          /\ ~Call(d).result.forwarded
          /\ Call(d).before.is_divider_hovered
          /\ ~CursorInHover(d)
          /\ ~dividers[d].is_divider_hovered
\* the condition on which the divider itself takes the latest event: a
\* left press inside the hover region, a left release during a drag, a move
\* with a cursor position during a drag
OwnGesture(d) ==
    \/ last.event = "PressLeft" /\ CursorInHover(d)
    \/ last.event = "ReleaseLeft" /\ Dragging(d)
    \/ last.event = "CursorMoved" /\ Dragging(d) /\ is_some(Call(d).cursor)

\* C12: every event delivered to a divider is either consumed (Captured,
\* the child's on_event not called) or handed unchanged to the child, whose
\* status is returned; which of the two is decided by the divider's own
\* press/release/move handling alone, whatever the child would answer; a
\* forwarded event leaves drag_origin as it was.
C12_ConsumeOrForward ==
    last.op = "on_event" =>
        \A d \in Called :
            /\ \/ /\ ~Call(d).result.forwarded
                  /\ Call(d).result.child_call = None
                  /\ Call(d).result.status = "Captured"
               \/ /\ Call(d).result.forwarded
                  /\ Call(d).result.child_call =
                        Some([event |-> last.event, cursor |-> Call(d).cursor])
                  /\ Call(d).result.status = last.child_status
                  /\ Call(d).result.published = <<>>
            /\ OwnGesture(d) <=> ~Call(d).result.forwarded
            /\ Call(d).result.forwarded =>
                  dividers[d].drag_origin = Call(d).before.drag_origin

\* C12 witness: a press that the child would have captured was consumed by
\* the divider whose hover region holds the cursor, and was forwarded, with
\* the child's Captured returned, by a divider in the middle of a drag.
C12_Witness ==
    /\ EventStep("PressLeft")
    /\ last.child_status = "Captured"
    /\ \E d \in Called :
          /\ CursorInHover(d)
          /\ ~Call(d).result.forwarded
          /\ Call(d).result.child_call = None
    /\ \E d \in Called :
          /\ Dragging(d)
          /\ Call(d).result.forwarded
          /\ Call(d).result.status = "Captured"
          /\ is_some(dividers[d].drag_origin)
\* the step taken delivers the given event to divider d
DeliveredTo(d, event) ==
    /\ last'.op = "on_event"
    /\ last'.event = event
    /\ last'.calls[d].delivered

\* the step taken delivers to divider d a left press with the cursor
\* inside its hover region, which becomes its drag_origin
PressedInside(d) ==
    /\ DeliveredTo(d, "PressLeft")
    /\ is_some(last'.calls[d].cursor)
    /\ InHoverRegion(d, unwrap(last'.calls[d].cursor))
    /\ dividers'[d].drag_origin = last'.calls[d].cursor

\* C13 as stated, step by step: drag_origin is set after a step only if the
\* step delivered a left press inside the hover region, or it was set
\* before and the step delivered no left press and no left release to the
\* divider (so that the most recent left press/release it got is a press
\* inside its hover region).
C13_Original ==
    [][\A d \in Dividers :
          is_some(dividers'[d].drag_origin) =>
              \/ PressedInside(d)
              \/ /\ is_some(dividers[d].drag_origin)
                 /\ ~DeliveredTo(d, "PressLeft")
                 /\ ~DeliveredTo(d, "ReleaseLeft")]_vars

\* C13 as amended: drag_origin is set after a step only if the step
\* delivered a left press inside the hover region, or it was set before,
\* is unchanged, and the step delivered no left release to the divider; a
\* left press outside the hover region during a drag leaves it set.  No
\* other event sets it, whatever the state of the other dividers.
C13_SetOnlyByPressInside ==
    [][\A d \in Dividers :
          is_some(dividers'[d].drag_origin) =>
              \/ PressedInside(d)
              \/ /\ is_some(dividers[d].drag_origin)
                 /\ dividers'[d].drag_origin = dividers[d].drag_origin
                 /\ ~DeliveredTo(d, "ReleaseLeft")]_vars

\* C13 witness: a left press inside the hover region of one divider reached
\* another divider in the middle of a drag, outside its hover region: the
\* first starts a drag and the origin of the second is as it was.
C13_Witness ==
    /\ EventStep("PressLeft")
    /\ \E d1 \in Called, d2 \in Called :
          /\ d1 # d2
          /\ CursorInHover(d1)
          /\ ~is_some(Call(d1).before.drag_origin)
          /\ dividers[d1].drag_origin = Call(d1).cursor
          /\ ~CursorInHover(d2)
          /\ Dragging(d2)
          /\ dividers[d2].drag_origin = Call(d2).before.drag_origin
\* the dividers of the tree whose drag_origin is set
DraggingNow == {d \in Dividers : has_divider(tree, d[1], d[2]) /\ is_some(dividers[d].drag_origin)}

\* the dividers whose hover region holds the cursor of the latest event
HoveredBy == {d \in Called : CursorInHover(d)}

\* C14 as stated: a left press that finds no drag in progress leaves at
\* most one divider with drag_origin set, and the pointer position of an
\* event is never in the hover regions of two dividers.
C14_Original ==
    /\ (EventStep("PressLeft") /\ \A d \in Called : ~Dragging(d)) =>
          Cardinality(DraggingNow) <= 1
    /\ last.op = "on_event" => Cardinality(HoveredBy) <= 1

\* the state SpecNarrow starts from, as Spec reaches it: column 2 has been
\* committed at min_column_width by a resize and nothing is pending
NarrowReached ==
    /\ columns = [i \in Cols |-> [width |-> NarrowWidths[i + 1], resize_offset |-> None]]
    /\ queue = <<>>
    /\ resize_columns_enabled /\ footer_enabled /\ min_width_enabled

\* the step taken is update on a message of the given type
Updated(type) == last'.op = "update" /\ last'.message.type = type

\* C15: update stores a resize notification (i, delta) as the
\* resize_offset of column i alone, which makes the column's effective
\* width its committed width plus delta, not below min_column_width; on
\* the commit notification every column with a pending offset gets as
\* committed width the effective width it had just before, every
\* resize_offset is cleared and the other columns are unchanged.
C15_ResizeThenCommit ==
    [][/\ Updated("Resizing") =>
            /\ last'.message.index \in Cols
            /\ columns' = [columns EXCEPT ![last'.message.index].resize_offset =
                                              Some(last'.message.offset)]
            /\ columns[last'.message.index].width + last'.message.offset >= min_column_width
            /\ tree'.header[last'.message.index + 1].cell.width =
                  columns[last'.message.index].width + last'.message.offset
       /\ Updated("Resized") =>
            \A i \in Cols :
                /\ columns'[i].resize_offset = None
                /\ is_some(columns[i].resize_offset) =>
                      /\ columns'[i].width = columns[i].width + unwrap(columns[i].resize_offset)
                      /\ columns'[i].width = tree.header[i + 1].cell.width
                      /\ columns'[i].width = tree'.header[i + 1].cell.width
                /\ ~is_some(columns[i].resize_offset) => columns'[i] = columns[i]]_vars

\* C15 witness: the divider of column 1, 100 wide, was pressed, dragged 30
\* to the right and released; the commit has been processed: the column is
\* 130 wide, the others are as they were and no resize_offset is pending.
C15_Witness ==
    /\ last.op = "update"
    /\ last.message.type = "Resized"
    /\ columns = [i \in Cols |->
                    [width |-> IF i = 1 THEN 130 ELSE InitWidths[i + 1],
                     resize_offset |-> None]]
    /\ tree.header[2].cell.width = 130
    /\ \A d \in Dividers : ~is_some(dividers[d].drag_origin)

\* a cell that holds its content and a spacer of divider_width, no Divider
IsSpacerCell(cell) == cell.widget = "Row" /\ cell.spacing = divider_width

\* C16: the body cells never hold a Divider; while on_column_resize is
\* not configured the header and footer cells hold a spacer of
\* divider_width instead of a Divider, no Divider gets an event and so no
\* pointer event publishes a resize or a commit notification.
C16_NoResizeWithoutCallbacks ==
    /\ \A r \in 0 .. NumRows - 1, i \in Cols : IsSpacerCell(tree.body[r][i + 1])
    /\ ~resize_columns_enabled =>
          /\ \A i \in Cols :
                /\ IsSpacerCell(tree.header[i + 1].cell)
                /\ is_some(tree.footer) => IsSpacerCell(unwrap(tree.footer)[i + 1].cell)
          /\ \A d \in Dividers : dividers[d] = State_default
          /\ last.op = "on_event" => Called = {}
    /\ resize_columns_enabled =>
          \A i \in Cols : tree.header[i + 1].cell.widget = "Divider"

\* C16 witness: with resizing switched off, a left press on the place of
\* the handle of column 1 reached no Divider and published nothing.
C16_Witness ==
    /\ ~resize_columns_enabled
    /\ EventStep("PressLeft")
    /\ last.pointer = [over |-> "header", at |-> Some(Point(155, 10))]
    /\ Called = {}
    /\ queue = <<>>
    /\ IsSpacerCell(tree.header[2].cell)

\* C17: every resize notification published carries the index of the
\* column whose divider published it, which is an index of the column
\* slice the table was built from; so does every one still pending.
C17_IndexInRange ==
    /\ last.op = "on_event" =>
          \A d \in Called :
              \A k \in 1 .. Len(Call(d).result.published) :
                  Call(d).result.published[k].type = "Resizing" =>
                      /\ Call(d).result.published[k].index = d[2]
                      /\ Call(d).result.published[k].index \in DOMAIN columns
                      /\ 0 <= d[2] /\ d[2] <= Cardinality(DOMAIN columns) - 1
    /\ \A k \in 1 .. Len(queue) :
          queue[k].type = "Resizing" => queue[k].index \in DOMAIN columns

\* C17 witness: the divider of the last column was dragged and the
\* notification carries the last index of the column slice.
C17_Witness ==
    /\ EventStep("CursorMoved")
    /\ \E d \in Called :
          /\ d = <<"header", NumCols - 1>>
          /\ Call(d).result.published # <<>>
          /\ Call(d).result.published[1].type = "Resizing"
          /\ Call(d).result.published[1].index = Cardinality(DOMAIN columns) - 1

\* the header cell and the footer cell of column i
HeaderCell(i) == tree.header[i + 1].cell
FooterCell(i) == unwrap(tree.footer)[i + 1].cell

\* C18: while both are in the tree, the header divider and the footer
\* divider of a column hold the same on_drag closure and the same
\* on_release message, are laid out alike and report the same notification
\* for every raw delta tried; each has its own State: what an event does to one is computed
\* from that divider's State and the cursor it is given alone.
C18_FooterMirrorsHeader ==
    /\ \A i \in Cols :
          (has_divider(tree, "header", i) /\ has_divider(tree, "footer", i)) =>
              /\ HeaderCell(i).divider = FooterCell(i).divider
              /\ HeaderCell(i).width = FooterCell(i).width
              /\ \A delta \in TryDeltas :
                    /\ call_on_drag(HeaderCell(i).divider.on_drag, delta)
                          = call_on_drag(FooterCell(i).divider.on_drag, delta)
                    /\ call_on_drag(FooterCell(i).divider.on_drag, delta).index = i
              /\ BoundsOf(<<"header", i>>) = BoundsOf(<<"footer", i>>)
    /\ has_divider(tree, "header", 0) <=> resize_columns_enabled
    /\ has_divider(tree, "footer", 0) <=> (resize_columns_enabled /\ is_some(tree.footer))
    /\ last.op = "on_event" =>
          \A d \in Called :
              /\ dividers[d] = Call(d).result.state
              /\ Call(d).result =
                    on_event(region_row(tree, d[1])[d[2] + 1].cell.divider, Call(d).before,
                             last.event, BoundsOf(d), Call(d).cursor, last.child_status)

\* C18 witness: a move over the footer reached both dividers of column 1,
\* wired alike, each in a drag from an origin of its own: the footer divider published the notification and
\* the header divider, given no cursor, kept its origin and published none.
C18_Witness ==
    /\ EventStep("CursorMoved")
    /\ is_some(tree.footer)
    /\ HeaderCell(1).divider = FooterCell(1).divider
    /\ is_some(dividers[<<"header", 1>>].drag_origin)
    /\ is_some(dividers[<<"footer", 1>>].drag_origin)
    /\ dividers[<<"header", 1>>].drag_origin # dividers[<<"footer", 1>>].drag_origin
    /\ Call(<<"footer", 1>>).result.published =
          <<call_on_drag(HeaderCell(1).divider.on_drag, 30)>>
    /\ Call(<<"header", 1>>).result.published = <<>>

\* C19: a drag_origin that is set stays set, and the same, through every
\* step that leaves the divider in the tree, but two: a left press inside
\* the hover region replaces it with the position of that press and a left
\* release clears it.  Every move that reaches the divider meanwhile with a
\* cursor position publishes the notification of the displacement from the
\* origin.
C19_Latched ==
    [][\A d \in Dividers :
          (is_some(dividers[d].drag_origin) /\ has_divider(tree', d[1], d[2])) =>
              /\ DeliveredTo(d, "ReleaseLeft") <=> dividers'[d].drag_origin = None
              /\ ~DeliveredTo(d, "ReleaseLeft") =>
                    IF PressedInside(d)
                    THEN dividers'[d].drag_origin = last'.calls[d].cursor
                    ELSE dividers'[d].drag_origin = dividers[d].drag_origin
              /\ (DeliveredTo(d, "CursorMoved") /\ is_some(last'.calls[d].cursor)) =>
                    last'.calls[d].result.published =
                        <<call_on_drag(
                            region_row(tree, d[1])[d[2] + 1].cell.divider.on_drag,
                            unwrap(last'.calls[d].cursor).x
                                - unwrap(dividers[d].drag_origin).x)>>]_vars

\* C19 witness: after the press and a move of a drag, with no left release
\* delivered, the release of another button reached the divider and left
\* its drag_origin set, the notification of the move still pending.
C19_Witness ==
    /\ EventStep("ReleaseRight")
    /\ \E d \in Called :
          /\ Dragging(d)
          /\ dividers[d].drag_origin = Call(d).before.drag_origin
          /\ Call(d).result.forwarded
          /\ queue # <<>>
          /\ queue[Len(queue)].type = "Resizing"
          /\ queue[Len(queue)].index = d[2]

\* the full layout bounds of divider d less 5 at the leading edge
InInsetBounds(d, p) ==
    /\ BoundsOf(d).x + 5 <= p.x
    /\ p.x < BoundsOf(d).x + BoundsOf(d).width
    /\ BoundsOf(d).y <= p.y
    /\ p.y < BoundsOf(d).y + BoundsOf(d).height

\* the frame drawn after the latest event: Divider::draw of divider d in
\* the State the event left, with the cursor of the event
Frame(d) ==
    draw(region_row(tree, d[1])[d[2] + 1].cell.divider, dividers[d], BoundsOf(d),
         Call(d).cursor)

\* C20 as stated: the content of a divider counts as hovered exactly when
\* the cursor is inside the layout bounds less 5 at the leading edge; no
\* position beyond the trailing edge counts.
C20_Original ==
    last.op = "on_event" =>
        \A d \in Called :
            Frame(d).content_hovered
                <=> (is_some(Call(d).cursor) /\ InInsetBounds(d, unwrap(Call(d).cursor)))

\* what the content of a divider may report as its mouse interaction
ChildInteractions == {"Idle", "Pointer", "Text"}

\* the divider is shown as grabbed: a drag is in progress or the handle is
\* hovered
Grabbed(d) == is_some(dividers[d].drag_origin) \/ dividers[d].is_divider_hovered

\* C21: in every state, each divider of the tree reports the
\* horizontal-resize cursor while its drag_origin is set or its handle is
\* hovered, and reports exactly what its child reports otherwise.
C21_ResizeCursor ==
    \A d \in Dividers :
        has_divider(tree, d[1], d[2]) =>
            \A ci \in ChildInteractions :
                /\ Grabbed(d) => mouse_interaction(dividers[d], ci) = "ResizingHorizontally"
                /\ ~Grabbed(d) => mouse_interaction(dividers[d], ci) = ci

\* C21 witness: a move took the cursor off the handle of a divider that is
\* dragged, so its drag_origin is set and its handle is not hovered, while
\* another divider of the tree is neither dragged nor hovered.
C21_Witness ==
    /\ EventStep("CursorMoved")
    /\ \E d \in Called :
          /\ is_some(dividers[d].drag_origin)
          /\ ~dividers[d].is_divider_hovered
          /\ mouse_interaction(dividers[d], "Idle") = "ResizingHorizontally"
    /\ \E d \in Called :
          /\ ~Grabbed(d)
          /\ mouse_interaction(dividers[d], "Text") = "Text"

\* the Divider widget of divider d in the tree
DividerOf(d) == region_row(tree, d[1])[d[2] + 1].cell.divider

\* the fill_quad calls of the frame of divider d
Quads(d) == SelectSeq(Frame(d).commands, LAMBDA c : c.op = "fill_quad")

\* C22: in the frame drawn after an event, each divider the event reached
\* draws its child first, with the cursor of the frame; it draws the handle
\* rectangle, once and after the child, exactly when the content is
\* hovered, is_divider_hovered is true or drag_origin is set; and the
\* appearance is asked for with hovered = (is_divider_hovered or drag_origin
\* set), so a handle painted only because the content is hovered has the
\* non-hovered appearance.
C22_DrawHandle ==
    last.op = "on_event" =>
        \A d \in Called :
            LET f == Frame(d)
                content == is_content_hovered(DividerOf(d), BoundsOf(d), Call(d).cursor)
            IN  /\ f.commands[1] = [op |-> "content.draw", cursor |-> Call(d).cursor]
                /\ Len(f.commands) = 1 + Len(Quads(d))
                /\ Len(Quads(d)) = IF content \/ Grabbed(d) THEN 1 ELSE 0
                /\ \A k \in 1 .. Len(Quads(d)) :
                      /\ Quads(d)[k].appearance.hovered = Grabbed(d)
                      /\ Quads(d)[k].bounds = divider_bounds(DividerOf(d), BoundsOf(d))
                /\ (content /\ ~Grabbed(d)) =>
                      f.commands[2].appearance.hovered = FALSE

\* C22 witness: after a resize was taken up by the view, a move put the
\* cursor over the content of a header divider, off its handle, while
\* another divider is dragged: the first paints its handle in the
\* non-hovered appearance, the second in the hovered one, and a third
\* paints nothing.
C22_Witness ==
    /\ EventStep("CursorMoved")
    /\ \E d \in Called :
          /\ Frame(d).content_hovered
          /\ ~Grabbed(d)
          /\ Len(Frame(d).commands) = 2
          /\ Frame(d).commands[2].appearance.hovered = FALSE
    /\ \E d \in Called :
          /\ is_some(dividers[d].drag_origin)
          /\ ~Frame(d).content_hovered
          /\ Frame(d).commands[2].appearance.hovered = TRUE
    /\ \E d \in Called : Len(Frame(d).commands) = 1

\* Message::Resized and Message::Resizing(index, offset)
Resized == [type |-> "Resized"]
Resizing(index, offset) == [type |-> "Resizing", index |-> index, offset |-> offset]

\* the indices and offsets tried: every column, one index past the last,
\* and offsets of both signs
TryIndices == Cols \cup {NumCols}
TryResizeOffsets == {-96, 0, 30}

\* C23: from the columns of every reachable state, processing Resized twice
\* leaves the columns that processing it once leaves, and processing
\* Resizing(i, a) then Resizing(i, b) leaves the columns that Resizing(i, b)
\* alone leaves; and after the application processed a Resized no column
\* has an offset pending, so a second Resized of the same release changes
\* nothing.
C23_CommitIdempotent ==
    /\ update_columns(update_columns(columns, Resized), Resized)
          = update_columns(columns, Resized)
    /\ \A i \in TryIndices : \A a, b \in TryResizeOffsets :
          update_columns(update_columns(columns, Resizing(i, a)), Resizing(i, b))
            = update_columns(columns, Resizing(i, b))
    /\ (last.op = "update" /\ last.message.type = "Resized") =>
          /\ \A i \in DOMAIN columns : columns[i].resize_offset = None
          /\ update_columns(columns, Resized) = columns

\* C23 witness: two dividers published Resized for one release; the
\* application processed the first, which committed a width, and the second
\* is the next message, which will leave the columns as they are.
C23_Witness ==
    /\ last.op = "update"
    /\ last.message = Resized
    /\ queue # <<>>
    /\ Head(queue) = Resized
    /\ \E i \in DOMAIN columns : columns[i].width # NarrowWidths[i + 1]
    /\ update_columns(columns, Head(queue)) = columns

====
